---------------------------- MODULE Spec2Model ----------------------------
(***************************************************************************)
(* Shortest knight routes on the chessboard (horse_moves.py).              *)
(*                                                                         *)
(* A ChessboardLocation object is identified by its str() key: every       *)
(* object that survives possible_next_moves is stored in `reached` under   *)
(* that key, and a previous_locations dict maps str(p) to the object p     *)
(* that `reached` holds under the same key.  A reference to a location is  *)
(* therefore modelled as the key, and a previous_locations dict as the set *)
(* of its keys.  Strings are sequences of character codes.                 *)
(*                                                                         *)
(* Every list of locations of the program takes its order from a           *)
(* dict.values() call, an order the program does not rely on.  Such a list *)
(* is modelled as a bag: its elements, each with the number of times it    *)
(* occurs.  A route is a sequence of keys; the list of routes is a bag.    *)
(***************************************************************************)
EXTENDS Integers, Sequences, FiniteSets, Bags, TLC

VARIABLES
    start_location,     \* HorseMoves.start_location (coordinates)
    finish_location,    \* HorseMoves.finish_location (coordinates)
    finish_string,      \* HorseMoves.finish_string
    move_tree,          \* HorseMoves.move_tree: list of lists of locations
    reached,            \* HorseMoves.reached: key -> location object
    pc,                 \* position of the caller in report_solutions / solve
    last_locations,     \* local of solve
    pruned_move_tree,   \* local of solve
    solutions           \* value returned by get_solutions

vars == <<start_location, finish_location, finish_string, move_tree, reached,
          pc, last_locations, pruned_move_tree, solutions>>

-----------------------------------------------------------------------------
(* Bounds of the model *)

\* file letters tried beyond 'A'..'H' on either side
Margin == 1

\* layers after which an endless search is no longer followed
MaxLayers == 8

-----------------------------------------------------------------------------
(* Program constants *)

\* the mask of is_valid is 7: coordinates 0..7
BoardSize == 8

OrdA == 65

Ord0 == 48

OrdMinus == 45

-----------------------------------------------------------------------------
(* ChessboardLocation *)

RECURSIVE NatStr(_)
NatStr(n) ==
    IF n < 10 THEN <<Ord0 + n>> ELSE NatStr(n \div 10) \o <<Ord0 + (n % 10)>>

\* str() of an integer
IntStr(n) == IF n < 0 THEN <<OrdMinus>> \o NatStr(-n) ELSE NatStr(n)

\* ChessboardLocation.__init__ on a two-character string
LocationFromText(text) ==
    [x |-> text[1] - OrdA,
     y |-> (text[2] - Ord0) - 1,
     previous_locations |-> {}]

\* ChessboardLocation.__init__ on a coordinate list with a previous location
LocationFromList(coordinates, previous_key) ==
    [x |-> coordinates[1],
     y |-> coordinates[2],
     previous_locations |-> {previous_key}]

\* x & 7 on Python integers is x modulo 8, also for negative x
BitAndMask(n) == n % BoardSize

\* is_valid with the mask 15 in place of 7
IsValidMask15(location) ==
    /\ location.x = location.x % 16
    /\ location.y = location.y % 16

IsValid(location) ==
    /\ location.x = BitAndMask(location.x)
    /\ location.y = BitAndMask(location.y)

\* ChessboardLocation.__str__
Str(location) == <<OrdA + location.x>> \o IntStr(1 + location.y)

AddPrevious(location, previous_keys) ==
    [location EXCEPT !.previous_locations = @ \cup previous_keys]

\* dict.values() of a dict given by its keys: each value once
Values(keys) == SetToBag(keys)

GetPreviousLocations(heap, key) == Values(heap[key].previous_locations)

\* list_routes appending the route itself, not route + [self]
RECURSIVE ListRoutesNoSelf(_, _)
ListRoutesNoSelf(heap, key) ==
    LET previous == BagToSet(GetPreviousLocations(heap, key))
        result == BagUnion({ListRoutesNoSelf(heap, p) : p \in previous})
    IN  IF result = EmptyBag THEN SetToBag({<<key>>}) ELSE result

\* list_routes returning result, not result or [[self]]
RECURSIVE ListRoutesNoBase(_, _)
ListRoutesNoBase(heap, key) ==
    LET previous == BagToSet(GetPreviousLocations(heap, key))
    IN  BagUnion({BagOfAll(LAMBDA route : Append(route, key),
                           ListRoutesNoBase(heap, p)) : p \in previous})

\* list_routes: for every previous location, each of its routes with this
\* location appended; result + ... is the sum of bags.  (The bags summed
\* differ pairwise, their routes coming through different previous
\* locations, so the sum over the set of them drops nothing.)
RECURSIVE ListRoutes(_, _)
ListRoutes(heap, key) ==
    LET previous == BagToSet(GetPreviousLocations(heap, key))
        result == BagUnion({BagOfAll(LAMBDA route : Append(route, key),
                                     ListRoutes(heap, p)) : p \in previous})
    IN  IF result = EmptyBag THEN SetToBag({<<key>>}) ELSE result

-----------------------------------------------------------------------------
(* HorseMoves *)

LongSteps == <<-2, 2>>
ShortSteps == <<-1, 1>>

NumCandidates == 8

\* the candidates with the first coordinate list written twice
CandidateSameTwice(location, i) ==
    LET long_step == LongSteps[((i - 1) \div 4) + 1]
        short_step == ShortSteps[(((i - 1) \div 2) % 2) + 1]
    IN  <<location.x + long_step, location.y + short_step>>

\* the candidates with y + 2 in place of y + long_step
CandidateUpOnly(location, i) ==
    LET long_step == LongSteps[((i - 1) \div 4) + 1]
        short_step == ShortSteps[(((i - 1) \div 2) % 2) + 1]
    IN  IF (i - 1) % 2 = 0
        THEN <<location.x + long_step, location.y + short_step>>
        ELSE <<location.x + short_step, location.y + 2>>

\* the i-th coordinate list tried from a location, in the order of the loops
Candidate(location, i) ==
    LET long_step == LongSteps[((i - 1) \div 4) + 1]
        short_step == ShortSteps[(((i - 1) \div 2) % 2) + 1]
    IN  IF (i - 1) % 2 = 0
        THEN <<location.x + long_step, location.y + short_step>>
        ELSE <<location.x + short_step, location.y + long_step>>

\* possible_next_moves without its add_previous branch: a key keeps the
\* location of its first turn only
PossibleNextMovesFirstOnly(heap, start_locations) ==
    LET turns == {[start |-> start_key,
                   new_location |->
                       LocationFromList(Candidate(heap[start_key], i), start_key)] :
                  start_key \in BagToSet(start_locations), i \in 1..NumCandidates}
        valid == {[start |-> t.start,
                   new_location |-> t.new_location,
                   new_location_string |-> Str(t.new_location)] :
                  t \in {u \in turns : IsValid(u.new_location)}}
        kept == {t \in valid : t.new_location_string \notin DOMAIN heap}
    IN  [new_location_string \in {t.new_location_string : t \in kept} |->
            LET mine == {t \in kept : t.new_location_string = new_location_string}
                first == CHOOSE t \in mine : TRUE
            IN  first.new_location]

\* possible_next_moves without its test of `reached`
PossibleNextMovesNoReachedCheck(heap, start_locations) ==
    LET turns == {[start |-> start_key,
                   new_location |->
                       LocationFromList(Candidate(heap[start_key], i), start_key)] :
                  start_key \in BagToSet(start_locations), i \in 1..NumCandidates}
        kept == {[start |-> t.start,
                  new_location |-> t.new_location,
                  new_location_string |-> Str(t.new_location)] :
                 t \in {u \in turns : IsValid(u.new_location)}}
    IN  [new_location_string \in {t.new_location_string : t \in kept} |->
            LET mine == {t \in kept : t.new_location_string = new_location_string}
                first == CHOOSE t \in mine : TRUE
            IN  AddPrevious(first.new_location, {t.start : t \in mine})]

\* The dict next_moves when the loops of possible_next_moves end.  A turn of
\* the innermost loop is a start location and the index i of a candidate.
\* `reached` does not change during the loops, so a turn is kept iff its new
\* location is valid and its key is not in `reached`.  The first kept turn of
\* a key stores its new location; every later one calls add_previous on the
\* stored location.  Which turn of a key comes first follows the order of
\* the list start_locations.
PossibleNextMoves(heap, start_locations) ==
    LET turns == {[start |-> start_key,
                   new_location |->
                       LocationFromList(Candidate(heap[start_key], i), start_key)] :
                  start_key \in BagToSet(start_locations), i \in 1..NumCandidates}
        valid == {[start |-> t.start,
                   new_location |-> t.new_location,
                   new_location_string |-> Str(t.new_location)] :
                  t \in {u \in turns : IsValid(u.new_location)}}
        kept == {t \in valid : t.new_location_string \notin DOMAIN heap}
    IN  [new_location_string \in {t.new_location_string : t \in kept} |->
            LET mine == {t \in kept : t.new_location_string = new_location_string}
                first == CHOOSE t \in mine : TRUE
            IN  AddPrevious(first.new_location, {t.start : t \in mine})]

Solved == finish_string \in DOMAIN reached

\* HorseMoves.__init__ on two parsed locations
Construct(start, finish) ==
    /\ start_location = [x |-> start.x, y |-> start.y]
    /\ finish_location = [x |-> finish.x, y |-> finish.y]
    /\ finish_string = Str(finish)
    /\ move_tree = <<SetToBag({Str(start)})>>
    /\ reached = (Str(start) :> start)
    /\ pc = "search"
    /\ last_locations = EmptyBag
    /\ pruned_move_tree = <<>>
    /\ solutions = EmptyBag

\* one turn of the loop of find_shortest_solutions
Expand ==
    /\ pc = "search"
    /\ ~Solved
    /\ Len(move_tree) < MaxLayers
    /\ LET next_moves == PossibleNextMoves(reached, move_tree[Len(move_tree)])
       IN  /\ reached' = next_moves @@ reached    \* reached.update(next_moves)
           /\ move_tree' = Append(move_tree, Values(DOMAIN next_moves))
    /\ UNCHANGED <<start_location, finish_location, finish_string, pc,
                   last_locations, pruned_move_tree, solutions>>

\* find_shortest_solutions returns; solve sets up its pruning loop
BeginPrune ==
    /\ pc = "search"
    /\ Solved
    /\ last_locations' = SetToBag({finish_string})
    /\ pruned_move_tree' = <<>>
    /\ pc' = "prune"
    /\ UNCHANGED <<start_location, finish_location, finish_string, move_tree,
                   reached, solutions>>

\* the inner loop of the pruning loop: the previous locations of every
\* location of the list, each as often as the location occurs, concatenated
PreviousOfAll(heap, locations) ==
    LET pairs == {<<key, previous_key>> \in
                     BagToSet(locations) \X DOMAIN heap :
                     BagIn(previous_key, GetPreviousLocations(heap, key))}
    IN  BagOfAll(LAMBDA pair : pair[2],
                 [pair \in pairs |-> CopiesIn(pair[1], locations)])

\* the pruning loop appending the layer, not inserting it in front
PruneStepAppend ==
    /\ pc = "prune"
    /\ last_locations # EmptyBag
    /\ pruned_move_tree' = Append(pruned_move_tree, last_locations)
    /\ last_locations' = PreviousOfAll(reached, last_locations)
    /\ UNCHANGED <<start_location, finish_location, finish_string, move_tree,
                   reached, pc, solutions>>

\* one turn of the pruning loop of solve
PruneStep ==
    /\ pc = "prune"
    /\ last_locations # EmptyBag
    /\ pruned_move_tree' = <<last_locations>> \o pruned_move_tree
    /\ last_locations' = PreviousOfAll(reached, last_locations)
    /\ UNCHANGED <<start_location, finish_location, finish_string, move_tree,
                   reached, pc, solutions>>

\* the pruning loop ends; solve stores the pruned tree and returns
EndPrune ==
    /\ pc = "prune"
    /\ last_locations = EmptyBag
    /\ move_tree' = pruned_move_tree
    /\ pc' = "solved"
    /\ UNCHANGED <<start_location, finish_location, finish_string, reached,
                   last_locations, pruned_move_tree, solutions>>

GetSolutions ==
    /\ pc = "solved"
    /\ Solved
    /\ solutions' = ListRoutes(reached, finish_string)
    /\ pc' = "done"
    /\ UNCHANGED <<start_location, finish_location, finish_string, move_tree,
                   reached, last_locations, pruned_move_tree>>

\* find_shortest_solutions as a function of the search's state: the reached
\* dict when the loop ends (followed, like Expand, for MaxLayers layers)
RECURSIVE FindShortestSolutions(_, _, _)
FindShortestSolutions(heap, tree, finish_key) ==
    IF finish_key \in DOMAIN heap \/ Len(tree) >= MaxLayers THEN heap
    ELSE LET next_moves == PossibleNextMoves(heap, tree[Len(tree)])
         IN  FindShortestSolutions(next_moves @@ heap,
                                   Append(tree, Values(DOMAIN next_moves)),
                                   finish_key)

\* HorseMoves(start, finish), solve() and get_solutions() on an instance of
\* its own: the routes returned (none when the search was not followed to
\* its end)
SolutionsOfSearch(start, finish) ==
    LET heap == FindShortestSolutions((Str(start) :> start),
                                      <<SetToBag({Str(start)})>>,
                                      Str(finish))
    IN  IF Str(finish) \in DOMAIN heap
        THEN ListRoutes(heap, Str(finish))
        ELSE EmptyBag

Next == Expand \/ BeginPrune \/ PruneStep \/ EndPrune \/ GetSolutions

-----------------------------------------------------------------------------
(* Requests *)

Digits == Ord0 .. (Ord0 + 9)

\* "A1" .. "H8"
ValidTexts ==
    {<<f, r>> : f \in OrdA .. (OrdA + BoardSize - 1),
                r \in (Ord0 + 1) .. (Ord0 + BoardSize)}

\* any letter near 'A'..'H' followed by any digit
AnyTexts ==
    {<<f, r>> : f \in (OrdA - Margin) .. (OrdA + BoardSize - 1 + Margin),
                r \in Digits}

Init ==
    \E start \in ValidTexts, finish \in ValidTexts :
        Construct(LocationFromText(start), LocationFromText(finish))

\* requests report_solutions passes on although a square is invalid
InitInvalid ==
    \E start \in AnyTexts, finish \in AnyTexts :
        /\ ~(start \in ValidTexts /\ finish \in ValidTexts)
        /\ Construct(LocationFromText(start), LocationFromText(finish))

Spec == Init /\ [][Next]_vars

SpecInvalid == InitInvalid /\ [][Next]_vars

-----------------------------------------------------------------------------
(* The knight's graph, stated independently of the search *)

Board == (0 .. (BoardSize - 1)) \X (0 .. (BoardSize - 1))

Abs(n) == IF n < 0 THEN -n ELSE n

\* squares a and b are one knight move apart
KnightMove(a, b) == Abs(a[1] - b[1]) * Abs(a[2] - b[2]) = 2

\* the squares one knight move from each square of the board
Neighbours == [a \in Board |-> {b \in Board : KnightMove(a, b)}]

NeighboursOf(a) == Neighbours[a]

\* <<W0, ..., Wn>>: Wk is the set of squares where a walk of exactly k knight
\* moves over the board from square a can end
RECURSIVE WalkEnds(_, _)
WalkEnds(a, n) ==
    IF n = 0 THEN <<{a}>>
    ELSE LET w == WalkEnds(a, n - 1)
         IN  Append(w, UNION {NeighboursOf(b) : b \in w[n]})

\* the least number of knight moves from a to b, two squares of the board
RECURSIVE LeastMoves(_, _, _)
LeastMoves(ends, b, n) ==
    IF b \in ends THEN n
    ELSE LeastMoves(UNION {NeighboursOf(c) : c \in ends}, b, n + 1)

KnightDistance(a, b) == LeastMoves({a}, b, 0)

\* every walk of exactly n knight moves from a that ends in b, given
\* w = WalkEnds(a, n)
RECURSIVE WalksTo(_, _, _)
WalksTo(w, b, n) ==
    IF n = 0 THEN (IF b \in w[1] THEN {<<b>>} ELSE {})
    ELSE UNION {{Append(walk, b) : walk \in WalksTo(w, c, n - 1)} :
                c \in NeighboursOf(b) \cap w[n]}

ShortestWalks(a, b) ==
    LET n == KnightDistance(a, b)
    IN  WalksTo(WalkEnds(a, n), b, n)

\* the square of a location, of the location stored under a key, and the
\* squares of a route of keys
Square(location) == <<location.x, location.y>>
SquareOf(key) == Square(reached[key])
SquaresOfRoute(route) == [i \in 1..Len(route) |-> SquareOf(route[i])]

StartSquare == Square(start_location)
TargetSquare == Square(finish_location)

\* the squares of a list of locations
SquaresOfLayer(layer) == {SquareOf(key) : key \in BagToSet(layer)}

-----------------------------------------------------------------------------
(* Claims *)

\* the guards of the five actions; what follows a guard in an action only
\* assigns, so an action can be taken wherever its guard holds
CanStep ==
    \/ pc = "search" /\ (Solved \/ Len(move_tree) < MaxLayers)
    \/ pc = "prune"
    \/ pc = "solved" /\ Solved

\* a number that every step must lower: squares not yet reached while
\* searching, layers not yet pruned while pruning
Rank ==
    CASE pc = "search" ->
             12 + (BoardSize * BoardSize - Cardinality(DOMAIN reached))
      [] pc = "prune" /\ last_locations # EmptyBag ->
             3 + (Len(move_tree) - Len(pruned_move_tree))
      [] pc = "prune" /\ last_locations = EmptyBag -> 2
      [] pc = "solved" -> 1
      [] OTHER -> 0

\* C1: for every pair of valid squares the search ends and get_solutions
\* returns at least one route: the program is never stuck before
\* get_solutions has returned, every step lowers a natural number (so no
\* run goes on forever: the search loop does reach a state with the target
\* key in reached), and the list returned holds at least one route.
C1_TerminatesWithRoute ==
    /\ [](pc # "done" => CanStep)
    /\ [](Rank \in Nat)
    /\ [][Rank' < Rank]_vars
    /\ [](pc = "done" => Solved /\ BagCardinality(solutions) >= 1)

C1_Witness ==
    /\ pc = "done"
    /\ StartSquare # TargetSquare
    /\ Len(move_tree) = 7
    /\ BagCardinality(solutions) >= 2

\* C2: the routes returned are exactly the shortest knight paths from start
\* to target: each begins at start, ends at target, moves by knight moves
\* over the board and has the least possible number of moves; every such
\* path is returned; and no route is returned twice.
C2_ExactShortestRoutes ==
    pc = "done" =>
        LET routes == BagToSet(solutions)
            n == KnightDistance(StartSquare, TargetSquare)
            walks == ShortestWalks(StartSquare, TargetSquare)
        IN  /\ \A route \in routes :
                  LET squares == SquaresOfRoute(route)
                  IN  /\ Len(squares) = n + 1
                      /\ squares[1] = StartSquare
                      /\ squares[Len(squares)] = TargetSquare
                      /\ \A i \in 1..Len(squares) : squares[i] \in Board
                      /\ \A i \in 1..(Len(squares) - 1) :
                            KnightMove(squares[i], squares[i + 1])
                      /\ CopiesIn(route, solutions) = 1
            /\ {SquaresOfRoute(route) : route \in routes} = walks
            /\ BagCardinality(solutions) = Cardinality(walks)

C2_Witness ==
    /\ pc = "done"
    /\ KnightDistance(StartSquare, TargetSquare) = 6
    /\ BagCardinality(solutions) = 108

\* C3: after solve, every route returned has as many moves as the pruned
\* move_tree has layers, less one; so all routes have the same move count.
C3_MovesAreLayersLessOne ==
    pc = "done" =>
        \A route \in BagToSet(solutions) :
            Len(route) - 1 = Len(move_tree) - 1

C3_Witness ==
    /\ pc = "done"
    /\ Len(move_tree) = 4
    /\ BagCardinality(solutions) >= 3

\* C4: after solve, the first layer of the pruned move_tree holds the start
\* square and nothing else, and its last layer the target square and
\* nothing else.
C4_PrunedEnds ==
    pc \in {"solved", "done"} =>
        /\ Len(move_tree) >= 1
        /\ BagToSet(move_tree[1]) = {Str(start_location)}
        /\ SquaresOfLayer(move_tree[1]) = {StartSquare}
        /\ BagToSet(move_tree[Len(move_tree)]) = {finish_string}
        /\ SquaresOfLayer(move_tree[Len(move_tree)]) = {TargetSquare}

C4_Witness ==
    /\ pc = "solved"
    /\ Len(move_tree) >= 3
    /\ StartSquare # TargetSquare

\* C6: with start = target the search expands no layer: move_tree is the
\* single layer holding the square, before and after solve, and
\* get_solutions returns one route, the square alone.
C6_StartIsTarget ==
    StartSquare = TargetSquare =>
        /\ move_tree = <<SetToBag({Str(start_location)})>>
        /\ DOMAIN reached = {Str(start_location)}
        /\ pc = "done" => solutions = SetToBag({<<Str(start_location)>>})

C6_Witness ==
    /\ StartSquare = TargetSquare
    /\ pc = "done"

\* C5: the search from a to b and a search of its own from b to a return
\* the same number of routes, with the same move counts.
C5_ReverseSearchAgrees ==
    pc = "done" =>
        LET back == SolutionsOfSearch(
                        [x |-> finish_location.x, y |-> finish_location.y,
                         previous_locations |-> {}],
                        [x |-> start_location.x, y |-> start_location.y,
                         previous_locations |-> {}])
        IN  /\ BagCardinality(back) = BagCardinality(solutions)
            /\ {Len(route) - 1 : route \in BagToSet(back)}
                   = {Len(route) - 1 : route \in BagToSet(solutions)}

C5_Witness ==
    /\ pc = "done"
    /\ StartSquare = <<0, 0>>
    /\ TargetSquare = <<7, 7>>
    /\ BagCardinality(solutions) = 108

\* C7 as claimed: whenever the start square or the target square is invalid,
\* the target key never gets into reached.
C7_InvalidSquareNeverSolved ==
    (StartSquare \notin Board \/ TargetSquare \notin Board) => ~Solved

\* C7 as amended: whenever the target square is invalid and is not the start
\* square, the search never leaves its loop: the target key never gets into
\* reached.
C7_InvalidTargetNeverSolved ==
    (TargetSquare \notin Board /\ TargetSquare # StartSquare) =>
        (pc = "search" /\ ~Solved)

\* the whole board is reached, an empty layer is appended, the search goes on
C7_Witness ==
    /\ TargetSquare \notin Board
    /\ StartSquare \in Board
    /\ pc = "search"
    /\ Cardinality(DOMAIN reached) = BoardSize * BoardSize
    /\ move_tree[Len(move_tree)] = EmptyBag

\* C8: while the search runs from a valid start, the unpruned move_tree has
\* {start} as layer 0; layer k holds exactly the squares at knight distance
\* k from start, each once; the layers are pairwise disjoint; and every
\* square of a layer k >= 1 has at least one predecessor, all of them in
\* layer k - 1.
C8_LayersAreDistances ==
    pc = "search" =>
        LET ends == WalkEnds(StartSquare, Len(move_tree) - 1)
            AtDistance(k) == ends[k + 1] \ UNION {ends[j] : j \in 1..k}
        IN  /\ move_tree[1] = SetToBag({Str(start_location)})
            /\ reached[Str(start_location)].previous_locations = {}
            /\ \A k \in 1..Len(move_tree) :
                  LET layer == BagToSet(move_tree[k])
                  IN  /\ SquaresOfLayer(move_tree[k]) = AtDistance(k - 1)
                      /\ Cardinality(layer) = Cardinality(AtDistance(k - 1))
                      /\ \A key \in layer : CopiesIn(key, move_tree[k]) = 1
                      /\ \A j \in 1..(k - 1) :
                            layer \cap BagToSet(move_tree[j]) = {}
                      /\ k >= 2 =>
                            \A key \in layer :
                               /\ reached[key].previous_locations # {}
                               /\ reached[key].previous_locations
                                      \subseteq BagToSet(move_tree[k - 1])

C8_Witness ==
    /\ pc = "search"
    /\ Len(move_tree) = 7
    /\ Cardinality(DOMAIN reached) = BoardSize * BoardSize

\* C9: when a layer expansion returns, the predecessor set of every square
\* of the new layer is exactly the set of squares of the expanded layer one
\* knight move from it; and no step ever changes the predecessor set of a
\* square already reached.
C9_PredecessorsExactAndFixed ==
    [][/\ (pc = "search" /\ Len(move_tree') = Len(move_tree) + 1) =>
              \A key \in BagToSet(move_tree'[Len(move_tree')]) :
                  reached'[key].previous_locations
                      = {p \in BagToSet(move_tree[Len(move_tree)]) :
                            KnightMove(Square(reached[p]), Square(reached'[key]))}
       /\ \A key \in DOMAIN reached :
              /\ key \in DOMAIN reached'
              /\ reached'[key].previous_locations
                     = reached[key].previous_locations]_vars

\* a square of the third layer or later reached from two squares at once
C9_Witness ==
    /\ pc = "search"
    /\ Len(move_tree) >= 3
    /\ \E key \in BagToSet(move_tree[Len(move_tree)]) :
           Cardinality(reached[key].previous_locations) >= 2

\* C10: each layer of the pruned move_tree but the last is the union of the
\* predecessor sets of the next layer; every layer holds each square at
\* most once; and a layer holds exactly the squares that lie at its depth
\* on some shortest path from start to target.
C10_PrunedLayersAreSets ==
    pc \in {"solved", "done"} =>
        LET walks == ShortestWalks(StartSquare, TargetSquare)
        IN  \A d \in 1..Len(move_tree) :
               /\ d < Len(move_tree) =>
                     BagToSet(move_tree[d])
                         = UNION {reached[key].previous_locations :
                                  key \in BagToSet(move_tree[d + 1])}
               /\ \A key \in BagToSet(move_tree[d]) :
                     CopiesIn(key, move_tree[d]) = 1
               /\ SquaresOfLayer(move_tree[d]) = {walk[d] : walk \in walks}

=============================================================================
